---- MODULE Spec2Model ----
(***************************************************************************)
(* APT repository key management of snapcraft                              *)
(* (snapcraft/repo/apt_key_manager.py): the keyring path resolver, the     *)
(* presence checker, the asset locator, the two installers and the         *)
(* orchestrator install_package_repository_key, run step by step by one or *)
(* more build processes over a shared filesystem.                          *)
(*                                                                         *)
(* A str is a sequence of one-character strings.  A path is a record       *)
(* [dir, name]: dir a directory name, name the file name as a sequence of  *)
(* pieces.  The external gpg tool is the environment: its exit code is     *)
(* chosen among the codes it can produce in the current filesystem.        *)
(***************************************************************************)
EXTENDS Integers, Sequences, FiniteSets, TLC

VARIABLES
    keyrings_dir,   \* self._keyrings_dir
    key_assets,     \* names of the files present under self._key_assets
    fs,             \* keyring files on disk: path -> [keys, mode]
    tmpdirs,        \* per process: the scratch home directory, or NoDir
    pc,             \* per process: position in install_package_repository_key
    package_repo,   \* per process: the argument of the running invocation
    key_id,         \* per process: local key_id
    key_server,     \* per process: local key_server
    key_path,       \* per process: local key_path (asset found, or None)
    outcome,        \* per process: how the invocation ended
    trace,          \* per process: operations performed by the invocation
    cmds,           \* per process: external tool invocations made
    fs0,            \* per process: the filesystem when the invocation began
    prev,           \* per process: how the invocation just before this one
                    \* ended, when it was made with the same reference
    in_id,          \* path resolver: key identifier given
    in_dir,         \* path resolver: keyrings_dir given (or None)
    in_other,       \* path resolver: a second identifier to compare with
    out_path,       \* path resolver: the paths resolved so far
    fpr_pc,         \* get_key_fingerprints: position
    key_data,       \* get_key_fingerprints: the key data given
    temp_file,      \* get_key_fingerprints: the NamedTemporaryFile
    fingerprints,   \* get_key_fingerprints: how the call ended
    yaml_data,      \* apply_host_variables: the project data, changed in place
    is_managed,     \* apply_host_variables: argument is_managed
    env,            \* apply_host_variables: argument env
    host_vars,      \* apply_host_variables: HostVars.mapping and .secrets
    todo,           \* apply_host_variables: strings still to be visited
    subst_pc,       \* apply_host_variables: position
    subst_error,    \* apply_host_variables: the exception raised, or None
    yaml_data0,     \* the project data as apply_host_variables was given it
    ran,            \* apply_host_variables: the commands given to bash
    host_run        \* the host-mode run a managed run repeats, when there is one

vars == <<keyrings_dir, key_assets, fs, tmpdirs, pc, package_repo, key_id,
          key_server, key_path, outcome, trace, cmds, fs0, prev,
          in_id, in_dir, in_other, out_path,
          fpr_pc, key_data, temp_file, fingerprints,
          yaml_data, is_managed, env, host_vars, todo, subst_pc, subst_error,
          yaml_data0, ran, host_run>>

orchVars == <<keyrings_dir, key_assets, fs, tmpdirs, pc, package_repo, key_id,
              key_server, key_path, outcome, trace, cmds, fs0, prev>>

pathVars == <<in_id, in_dir, in_other, out_path>>

fprVars == <<fpr_pc, key_data, temp_file, fingerprints>>

substVars == <<yaml_data, is_managed, env, host_vars, todo, subst_pc,
               subst_error, yaml_data0, ran, host_run>>

-----------------------------------------------------------------------------
(* Strings *)

None == "None"

\* str.upper() on one character, for the characters the model uses
UpperChar(c) ==
    CASE c = "a" -> "A"
      [] c = "b" -> "B"
      [] c = "c" -> "C"
      [] c = "d" -> "D"
      [] c = "e" -> "E"
      [] c = "f" -> "F"
      [] OTHER -> c

LowerChar(c) ==
    CASE c = "A" -> "a"
      [] c = "B" -> "b"
      [] c = "C" -> "c"
      [] c = "D" -> "d"
      [] c = "E" -> "e"
      [] c = "F" -> "f"
      [] OTHER -> c

\* str.upper()
StrUpper(s) == [i \in 1..Len(s) |-> UpperChar(s[i])]

\* the slice length in key_id[-8:]
ShortIdLen == 8

\* Python's s[-n:] : the last n characters, the whole of s when it is shorter
LastChars(s, n) ==
    LET start == IF Len(s) - n > 0 THEN Len(s) - n ELSE 0
    IN  SubSeq(s, start + 1, Len(s))

\* key_id[-8:].upper()
FirstCharsUpper(k) == StrUpper(SubSeq(k, 1, IF Len(k) < ShortIdLen THEN Len(k) ELSE ShortIdLen))

LastCharsNoUpper(k) == LastChars(k, ShortIdLen)

short_id(k) == StrUpper(LastChars(k, ShortIdLen))

-----------------------------------------------------------------------------
(* Paths *)

DefaultKeyringsDir == "/etc/apt/keyrings"

CustomKeyringsDir == "/root/keyrings"

\* _keyring_file(key_id, keyrings_dir=None)
keyring_file(k, dir) ==
    LET target_dir == IF dir = None THEN DefaultKeyringsDir ELSE dir
    IN  [dir |-> target_dir, name |-> <<"craft-">> \o short_id(k) \o <<".gpg">>]

\* key_file in find_asset_with_key_id
asset_file(k) == short_id(k) \o <<".asc">>

-----------------------------------------------------------------------------
(* The world outside the program: keys, key servers, references *)

\* two keys, by fingerprint
F1 == <<"0","1","2","3","4","5","6","7","8","9","A","B","C","D","E","F">>

F2 == <<"A","B","1","2">>

Fingerprints == {F1, F2}

\* identifiers the references use: a full fingerprint, the lower-case short
\* form of the same key, and an identifier shorter than eight characters
I1 == F1

I2 == <<"8","9","a","b","c","d","e","f">>

I3 == <<"a","b","1","2">>

KeyIds == {I1, I2, I3}

IsSuffix(s, t) == Len(s) <= Len(t) /\ LastChars(t, Len(s)) = s

\* gpg finds key fp under identifier k (hexadecimal, case-insensitive suffix)
Matches(k, fp) == Len(k) > 0 /\ IsSuffix(StrUpper(k), fp)

DefaultKeyServer == "keyserver.ubuntu.com"

OtherKeyServer == "keyserver.example.com"

NoKeyId == <<>>

\* apt_ppa.get_launchpad_ppa_key_id(ppa=...): the signing key Launchpad
\* reports for the PPA
get_launchpad_ppa_key_id(ppa) == F1

PPARepo == [type |-> "PackageRepositoryAptPPA", ppa |-> "snapcraft/daily",
            key_id |-> NoKeyId, key_server |-> None]

AptRepo(k, s) == [type |-> "PackageRepositoryApt", ppa |-> None,
                  key_id |-> k, key_server |-> s]

OtherRepo == [type |-> "PackageRepository", ppa |-> None,
              key_id |-> NoKeyId, key_server |-> None]

PackageRepos == {PPARepo, AptRepo(I1, None), AptRepo(I2, OtherKeyServer),
                 AptRepo(I3, None), OtherRepo}

\* build processes; Spec runs the first alone
Procs == {1, 2}

NoDir == "NoDir"

NoPath == <<>>

\* modes the external tool may create a keyring file with (umask-dependent)
ToolCreateModes == {"0600", "0664"}

KeyringMode == "0644"

TmpDirWorldReadable == "0755"

TmpDirMode == "0700"

-----------------------------------------------------------------------------
(* The filesystem and the external key tool *)

\* keyring_file.is_file()
AlwaysIsFile(f) == TRUE

is_file(f) == f \in DOMAIN fs

HasKey(disk, f, k) == f \in DOMAIN disk /\ \E fp \in disk[f].keys : Matches(k, fp)

KeysOf(disk, f) == IF f \in DOMAIN disk THEN disk[f].keys ELSE {}

\* the tool adds keys ks to keyring f, creating f with mode m when missing
WriteKeysReplacing(f, ks, m) ==
    [x \in DOMAIN fs \cup {f} |->
        IF x = f
        THEN [keys |-> ks, mode |-> IF f \in DOMAIN fs THEN fs[f].mode ELSE m]
        ELSE fs[x]]

WriteKeys(f, ks, m) ==
    [x \in DOMAIN fs \cup {f} |->
        IF x = f
        THEN [keys |-> KeysOf(fs, f) \cup ks,
              mode |-> IF f \in DOMAIN fs THEN fs[f].mode ELSE m]
        ELSE fs[x]]

\* os.chmod(f, m), f existing
ChmodSkipped(f, m) == fs

Chmod(f, m) == [fs EXCEPT ![f].mode = m]

\* outcomes of os.chmod and Path.read_text: done, or an OSError is raised
OsOutcomes == {"ok", "OSError"}

\* _gpg_prefix()
gpg_prefix == <<"gpg", "--batch", "--no-default-keyring">>

\* _gnupg_ring(keyring_file)
gnupg_ring(f) == [scheme |-> "gnupg-ring", path |-> f]

\* the code of gpg --list-key that the presence check expects for a missing key
expected_returncode == 2

\* exit codes gpg --list-key k can end with on keyring f: 0 when the key is
\* listed, 2 when it is not, and 1 for any failure the check does not expect
ListKeyExits(f, k) == (IF HasKey(fs, f, k) THEN {0} ELSE {expected_returncode}) \cup {1}

\* exit codes of gpg --import and gpg --recv-keys: success, or a failure
InstallExits == {0, 2}

\* the text of a key asset, and the keys that text holds: an asset is named
\* after the key it carries
read_text(asset) == <<"key material of">> \o asset

KeysIn(text) == {fp \in Fingerprints : read_text(asset_file(fp)) = text}

\* the keys a key server serves under identifier k
KeyserverKeys(k) == {fp \in Fingerprints : Matches(k, fp)}

TmpDirName(p) == IF p = 1 THEN "/tmp/tmp1" ELSE "/tmp/tmp2"

NoText == <<>>

\* one invocation of the external tool, as subprocess.run is given it
Cmd(verb, f, homedir, server, arg, stdin, lang, exit) ==
    [verb |-> verb, prefix |-> gpg_prefix, homedir |-> homedir,
     keyring |-> gnupg_ring(f), keyserver |-> server, arg |-> arg,
     stdin |-> stdin, lang |-> lang, exit |-> exit]

\* error.output of a failed invocation
Output(verb, exit) == [verb |-> verb, exit |-> exit]

NoOutput == [verb |-> None, exit |-> 0]

-----------------------------------------------------------------------------
(* Outcomes of an invocation *)

NoOutcome == [kind |-> "none", value |-> FALSE, error |-> None,
              output |-> NoOutput, key |-> NoText, key_id |-> NoKeyId,
              key_server |-> None]

\* return False (already installed) and return True (installed)
ReturnedTrue(v) == [NoOutcome EXCEPT !.kind = "return", !.value = TRUE]

Returned(v) == [NoOutcome EXCEPT !.kind = "return", !.value = v]

Raised(error) == [NoOutcome EXCEPT !.kind = "raise", !.error = error]

\* errors.AptGPGKeyInstallError(output, key=..., key_id=..., key_server=...)
KeyInstallErrorWithoutOutput(output, key, kid, server) ==
    [kind |-> "raise", value |-> FALSE, error |-> "AptGPGKeyInstallError",
     output |-> NoOutput, key |-> key, key_id |-> kid, key_server |-> server]

AptGPGKeyInstallError(output, key, kid, server) ==
    [kind |-> "raise", value |-> FALSE, error |-> "AptGPGKeyInstallError",
     output |-> output, key |-> key, key_id |-> kid, key_server |-> server]

\* absent0: the key was in no keyring file the invocation could inspect or
\* write when it began
NoPrev == [valid |-> FALSE, kind |-> "none", value |-> FALSE, absent0 |-> FALSE]

-----------------------------------------------------------------------------
(* install_package_repository_key, step by step *)

Log(p, ops) == trace' = [trace EXCEPT ![p] = @ \o ops]

RanTwice(p, cmd) == cmds' = [cmds EXCEPT ![p] = Append(Append(@, cmd), cmd)]

Ran(p, cmd) == cmds' = [cmds EXCEPT ![p] = Append(@, cmd)]

Goto(p, loc) == pc' = [pc EXCEPT ![p] = loc]

Finish(p, o) == /\ pc' = [pc EXCEPT ![p] = "done"]
                /\ outcome' = [outcome EXCEPT ![p] = o]

\* the file is_key_installed inspects
presence_keyring_file(k) == keyring_file(k, None)

\* the file install_key and install_key_from_keyserver write
install_keyring_file(k) == keyring_file(k, keyrings_dir)

\* the key server the orchestrator passes on
AlwaysDefaultKeyServer(server) == DefaultKeyServer

effective_key_server(server) == IF server = None THEN DefaultKeyServer ELSE server

\* key k is in neither the keyring file of the configured directory nor
\* that of the default directory
KeyAbsent(disk, k) ==
    /\ ~HasKey(disk, keyring_file(k, keyrings_dir), k)
    /\ ~HasKey(disk, keyring_file(k, None), k)

\* where a recognized variant continues after the dispatch:
\* if self.is_key_installed(key_id=key_id)
StartsAtFindAsset == "find_asset"

first_step == "is_key_installed"

\* raise RuntimeError(f"unhandled package repo type: {package_repo!r}")
UnhandledAsKeyInstallError == AptGPGKeyInstallError(NoOutput, NoText, NoKeyId, None)

unhandled_package_repo_type == Raised("RuntimeError")

\* a caller invokes install_package_repository_key(package_repo=r): the
\* dispatch on the variant of r
Call(p, r) ==
    /\ pc[p] \in {"idle", "done"}
    /\ prev' = [prev EXCEPT ![p] =
                  IF pc[p] = "done" /\ package_repo[p] = r
                  THEN [valid |-> TRUE, kind |-> outcome[p].kind,
                        value |-> outcome[p].value,
                        absent0 |-> KeyAbsent(fs0[p], key_id[p])]
                  ELSE NoPrev]
    /\ package_repo' = [package_repo EXCEPT ![p] = r]
    /\ fs0' = [fs0 EXCEPT ![p] = fs]
    /\ trace' = [trace EXCEPT ![p] = << >>]
    /\ cmds' = [cmds EXCEPT ![p] = << >>]
    /\ key_path' = [key_path EXCEPT ![p] = NoPath]
    /\ IF r.type = "PackageRepositoryAptPPA"
       THEN /\ key_id' = [key_id EXCEPT ![p] = get_launchpad_ppa_key_id(r.ppa)]
            /\ key_server' = [key_server EXCEPT ![p] = None]
            /\ Goto(p, first_step)
            /\ outcome' = [outcome EXCEPT ![p] = NoOutcome]
       ELSE IF r.type = "PackageRepositoryApt"
       THEN /\ key_id' = [key_id EXCEPT ![p] = r.key_id]
            /\ key_server' = [key_server EXCEPT ![p] = r.key_server]
            /\ Goto(p, first_step)
            /\ outcome' = [outcome EXCEPT ![p] = NoOutcome]
       ELSE /\ key_id' = [key_id EXCEPT ![p] = NoKeyId]
            /\ key_server' = [key_server EXCEPT ![p] = None]
            /\ Finish(p, unhandled_package_repo_type)
    /\ UNCHANGED <<keyrings_dir, key_assets, fs, tmpdirs, pathVars, fprVars, substVars>>

\* is_key_installed: the keyring file is looked for first; when it is
\* missing the check answers False without running the tool
IsFile(p) ==
    /\ pc[p] = "is_key_installed"
    /\ IF is_file(presence_keyring_file(key_id[p]))
       THEN Log(p, <<"is_file">>) /\ Goto(p, "list_key")
       ELSE Log(p, <<"is_file", "is_key_installed:False">>) /\ Goto(p, "find_asset")
    /\ UNCHANGED <<keyrings_dir, key_assets, fs, tmpdirs, package_repo, key_id,
                   key_server, key_path, outcome, cmds, fs0, prev, pathVars, fprVars, substVars>>

\* is_key_installed answers True when subprocess.run(check=True) raised no
\* CalledProcessError, that is when the tool exited with code 0
OnlyExpectedIsAbsent(e) == e # expected_returncode

list_key_found(e) == e = 0

\* is_key_installed: gpg --list-key; the orchestrator returns False when
\* the check answers True
ListKey(p) ==
    /\ pc[p] = "list_key"
    /\ LET f == presence_keyring_file(key_id[p])
       IN  \E e \in ListKeyExits(f, key_id[p]), m \in ToolCreateModes :
              /\ Ran(p, Cmd("--list-key", f, None, None, key_id[p], NoText, None, e))
              \* run on a missing keyring, the tool creates it empty
              /\ fs' = IF f \in DOMAIN fs THEN fs ELSE WriteKeys(f, {}, m)
              /\ IF list_key_found(e)
                 THEN /\ Log(p, <<"list_key", "is_key_installed:True">>)
                      /\ Finish(p, Returned(FALSE))
                 ELSE /\ Log(p, <<"list_key", "is_key_installed:False">>)
                      /\ Goto(p, "find_asset")
                      /\ UNCHANGED outcome
    /\ UNCHANGED <<keyrings_dir, key_assets, tmpdirs, package_repo, key_id,
                   key_server, key_path, fs0, prev, pathVars, fprVars, substVars>>

\* find_asset_with_key_id(key_id=k): the asset's path, or None
FindAssetByLongName(k) ==
    IF StrUpper(k) \o <<".asc">> \in key_assets THEN StrUpper(k) \o <<".asc">> ELSE NoPath

find_asset_with_key_id(k) ==
    IF asset_file(k) \in key_assets THEN asset_file(k) ELSE NoPath

\* the orchestrator looks for an asset and chooses the installation path
FindAsset(p) ==
    /\ pc[p] = "find_asset"
    /\ Log(p, <<"find_asset">>)
    /\ key_path' = [key_path EXCEPT ![p] = find_asset_with_key_id(key_id[p])]
    /\ IF key_path'[p] # NoPath
       THEN /\ Goto(p, "read_text")
            /\ UNCHANGED key_server
       ELSE /\ key_server' = [key_server EXCEPT ![p] = effective_key_server(@)]
            /\ Goto(p, "mkdtemp")
    /\ UNCHANGED <<keyrings_dir, key_assets, fs, tmpdirs, package_repo, key_id,
                   outcome, cmds, fs0, prev, pathVars, fprVars, substVars>>

\* key_path.read_text()
ReadText(p) ==
    /\ pc[p] = "read_text"
    /\ \E r \in OsOutcomes :
          IF r = "ok"
          THEN Log(p, <<"read_text">>) /\ Goto(p, "import") /\ UNCHANGED outcome
          ELSE Log(p, <<"read_text:OSError">>) /\ Finish(p, Raised("OSError"))
    /\ UNCHANGED <<keyrings_dir, key_assets, fs, tmpdirs, package_repo, key_id,
                   key_server, key_path, cmds, fs0, prev, pathVars, fprVars, substVars>>

\* install_key: gpg --import of the asset's text into the keyring file; a
\* failing tool may still have created the keyring file
Import(p) ==
    /\ pc[p] = "import"
    /\ LET f == install_keyring_file(key_id[p])
           key == read_text(key_path[p])
       IN  \E e \in InstallExits, m \in ToolCreateModes, touched \in BOOLEAN :
              /\ Log(p, <<"import">>)
              /\ Ran(p, Cmd("--import", f, None, None, <<"-">>, key, "C.UTF-8", e))
              /\ IF e = 0
                 THEN /\ fs' = WriteKeys(f, KeysIn(key), m)
                      /\ Goto(p, "chmod_import")
                      /\ UNCHANGED outcome
                 ELSE /\ fs' = IF touched THEN WriteKeys(f, {}, m) ELSE fs
                      /\ Finish(p, AptGPGKeyInstallError(Output("--import", e), key,
                                                         NoKeyId, None))
    /\ UNCHANGED <<keyrings_dir, key_assets, tmpdirs, package_repo, key_id,
                   key_server, key_path, fs0, prev, pathVars, fprVars, substVars>>

\* install_key: os.chmod(keyring_file, 0o644), then the orchestrator
\* returns True
ChmodImport(p) ==
    /\ pc[p] = "chmod_import"
    /\ \E r \in OsOutcomes :
          IF r = "ok"
          THEN /\ Log(p, <<"chmod">>)
               /\ fs' = Chmod(install_keyring_file(key_id[p]), KeyringMode)
               /\ Finish(p, Returned(TRUE))
          ELSE /\ Log(p, <<"chmod:OSError">>)
               /\ UNCHANGED fs
               /\ Finish(p, Raised("OSError"))
    /\ UNCHANGED <<keyrings_dir, key_assets, tmpdirs, package_repo, key_id,
                   key_server, key_path, cmds, fs0, prev, pathVars, fprVars, substVars>>

\* TemporaryDirectory.__exit__: the directory d is removed
TmpDirKept(d) == d

cleanup(d) == NoDir

\* install_key_from_keyserver: tempfile.TemporaryDirectory()
MkDTemp(p) ==
    /\ pc[p] = "mkdtemp"
    /\ Log(p, <<"mkdtemp">>)
    /\ tmpdirs' = [tmpdirs EXCEPT ![p] = TmpDirMode]
    /\ Goto(p, "chmod_tmpdir")
    /\ UNCHANGED <<keyrings_dir, key_assets, fs, package_repo, key_id,
                   key_server, key_path, outcome, cmds, fs0, prev, pathVars, fprVars, substVars>>

\* install_key_from_keyserver: os.chmod(tmpdir, 0o700)
ChmodTmpDir(p) ==
    /\ pc[p] = "chmod_tmpdir"
    /\ Log(p, <<"chmod_tmpdir">>)
    /\ tmpdirs' = [tmpdirs EXCEPT ![p] = TmpDirMode]
    /\ Goto(p, "recv_keys")
    /\ UNCHANGED <<keyrings_dir, key_assets, fs, package_repo, key_id,
                   key_server, key_path, outcome, cmds, fs0, prev, pathVars, fprVars, substVars>>

\* install_key_from_keyserver: gpg --recv-keys; the tool succeeds only
\* when the key server serves the key
RecvKeys(p) ==
    /\ pc[p] = "recv_keys"
    /\ LET f == install_keyring_file(key_id[p])
       IN  \E e \in InstallExits, m \in ToolCreateModes, touched \in BOOLEAN :
              /\ e = 0 => KeyserverKeys(key_id[p]) # {}
              /\ Log(p, <<"recv_keys">>)
              /\ Ran(p, Cmd("--recv-keys", f, TmpDirName(p), key_server[p],
                            key_id[p], NoText, "C.UTF-8", e))
              /\ fs' = IF e = 0 THEN WriteKeys(f, KeyserverKeys(key_id[p]), m)
                       ELSE IF touched THEN WriteKeys(f, {}, m) ELSE fs
              /\ Goto(p, "rm_tmpdir")
    /\ UNCHANGED <<keyrings_dir, key_assets, tmpdirs, package_repo, key_id,
                   key_server, key_path, outcome, fs0, prev, pathVars, fprVars, substVars>>

\* install_key_from_keyserver: the with block is left, by the end of its
\* body or by CalledProcessError, which the except clause turns into
\* AptGPGKeyInstallError
RmTmpDir(p) ==
    /\ pc[p] = "rm_tmpdir"
    /\ Log(p, <<"rm_tmpdir">>)
    /\ tmpdirs' = [tmpdirs EXCEPT ![p] = cleanup(@)]
    /\ LET last == cmds[p][Len(cmds[p])]
       IN  IF last.exit = 0
           THEN Goto(p, "chmod_recv") /\ UNCHANGED outcome
           ELSE Finish(p, AptGPGKeyInstallError(Output("--recv-keys", last.exit),
                                                NoText, key_id[p], key_server[p]))
    /\ UNCHANGED <<keyrings_dir, key_assets, fs, package_repo, key_id,
                   key_server, key_path, cmds, fs0, prev, pathVars, fprVars, substVars>>

\* install_key_from_keyserver: os.chmod(keyring_file, 0o644), then the
\* orchestrator returns True
ChmodRecv(p) ==
    /\ pc[p] = "chmod_recv"
    /\ \E r \in OsOutcomes :
          IF r = "ok"
          THEN /\ Log(p, <<"chmod">>)
               /\ fs' = Chmod(install_keyring_file(key_id[p]), KeyringMode)
               /\ Finish(p, Returned(TRUE))
          ELSE /\ Log(p, <<"chmod:OSError">>)
               /\ UNCHANGED fs
               /\ Finish(p, Raised("OSError"))
    /\ UNCHANGED <<keyrings_dir, key_assets, tmpdirs, package_repo, key_id,
                   key_server, key_path, cmds, fs0, prev, pathVars, fprVars, substVars>>

-----------------------------------------------------------------------------
(* get_key_fingerprints, step by step *)

\* no NamedTemporaryFile exists
NoFile == [exists |-> FALSE, keys |-> {}]

\* get_key_fingerprints has not returned
NoFingerprints == [kind |-> "none", value |-> << >>]

\* key data a caller may pass: the text of an asset, or text holding no key
KeyTexts == {read_text(asset_file(F1)), <<"no key material">>}

\* the fingerprints of an import result, as the list gnupg reports
FingerprintList(ks) == IF ks = {} THEN << >> ELSE <<CHOOSE fp \in ks : TRUE>>

\* NamedTemporaryFile.__exit__: the file is closed and deleted
TempFileKept(f) == f

close(f) == NoFile

\* get_key_fingerprints(key=k): tempfile.NamedTemporaryFile(suffix="keyring")
\* creates an empty file; the caller is in no other operation
GetKeyFingerprints(k) ==
    /\ fpr_pc \in {"idle", "done"}
    /\ pc[1] \in {"idle", "done"}
    /\ key_data' = k
    /\ temp_file' = [exists |-> TRUE, keys |-> {}]
    /\ fingerprints' = NoFingerprints
    /\ fpr_pc' = "import_keys"
    /\ UNCHANGED <<orchVars, pathVars, substVars>>

\* gnupg.GPG(keyring=temp_file.name).import_keys(key_data=key).fingerprints:
\* the keys of the text go to the temporary keyring; gnupg.GPG raises when
\* the gpg binary cannot be run
ImportKeys ==
    /\ fpr_pc = "import_keys"
    /\ \E r \in OsOutcomes :
          IF r = "ok"
          THEN /\ temp_file' = [temp_file EXCEPT !.keys = KeysIn(key_data)]
               /\ fingerprints' = [kind |-> "return",
                                   value |-> FingerprintList(KeysIn(key_data))]
          ELSE /\ UNCHANGED temp_file
               /\ fingerprints' = [kind |-> "raise", value |-> << >>]
    /\ fpr_pc' = "exit"
    /\ UNCHANGED <<key_data, orchVars, pathVars, substVars>>

\* the with block is left, by return or by the exception
TempFileExit ==
    /\ fpr_pc = "exit"
    /\ temp_file' = close(temp_file)
    /\ fpr_pc' = "done"
    /\ UNCHANGED <<key_data, fingerprints, orchVars, pathVars, substVars>>

-----------------------------------------------------------------------------
(* snapcraft/variables.py: strings are sequences of tokens *)

HostOpen == "$(HOST:"

SecretOpen == "$(HOST_SECRET:"

Close == ")"

SeqMin(S) == CHOOSE i \in S : \A j \in S : i <= j

SeqMax(S) == CHOOSE i \in S : \A j \in S : j <= i

NoMatch == [found |-> FALSE, group |-> << >>, secret |-> FALSE, command |-> << >>]

\* _HOST_VAR_RE.search(value), the pattern being
\* \$\(HOST(?P<secret>_SECRET)?:(?P<command>.*)\) : the leftmost opener that
\* a closing parenthesis follows, up to the last closing parenthesis
HOST_VAR_RE_search(value) ==
    LET closes == {j \in 1..Len(value) : value[j] = Close}
        hits == {i \in 1..Len(value) :
                    /\ value[i] \in {HostOpen, SecretOpen}
                    /\ \E j \in closes : j > i}
    IN  IF hits = {}
        THEN NoMatch
        ELSE LET i == SeqMin(hits)
                 j == SeqMax(closes)
             IN  [found |-> TRUE, group |-> SubSeq(value, i, j),
                  secret |-> value[i] = SecretOpen,
                  command |-> SubSeq(value, i + 1, j - 1)]

\* str.replace(old, new): every occurrence of old, left to right
RECURSIVE str_replace(_, _, _)
str_replace(value, old, new) ==
    IF Len(value) < Len(old) \/ old = << >>
    THEN value
    ELSE IF SubSeq(value, 1, Len(old)) = old
    THEN new \o str_replace(SubSeq(value, Len(old) + 1, Len(value)), old, new)
    ELSE <<Head(value)>> \o str_replace(Tail(value), old, new)

\* str.rstrip()
RECURSIVE rstrip(_)
rstrip(text) ==
    IF text # << >> /\ text[Len(text)] \in {"\n", " "}
    THEN rstrip(SubSeq(text, 1, Len(text) - 1))
    ELSE text

\* the commands of the unit test, and what bash prints for them on the host
EchoSecretVar == <<"echo $MY_SECRET_VAR">>

EchoVar == <<"echo $MY_VAR">>

\* a command that prints something else each time it is run
EchoRandom == <<"echo $RANDOM">>

\* subprocess.check_output(["bash", "-c", cmd]): the output on exit code 0,
\* CalledProcessError otherwise; text that is no command of the host makes
\* bash fail, or print something
check_output(cmd) ==
    IF cmd = EchoSecretVar THEN {[exit |-> 0, output |-> <<"my_secret_var_value", "\n">>]}
    ELSE IF cmd = EchoVar THEN {[exit |-> 0, output |-> <<"my_var_value", "\n">>]}
    ELSE IF cmd = << >> THEN {[exit |-> 0, output |-> << >>]}
    ELSE IF cmd = EchoRandom THEN {[exit |-> 0, output |-> <<"17", "\n">>],
                                   [exit |-> 0, output |-> <<"42", "\n">>]}
    ELSE {[exit |-> 2, output |-> << >>],
          [exit |-> 0, output |-> <<"output of">> \o cmd \o <<"\n">>]}

\* hashlib.md5(cmd.encode("utf8")).hexdigest()
md5_hexdigest(cmd) ==
    IF cmd = EchoSecretVar THEN <<"94d30d76b97e6646d294adec8196bdf7">>
    ELSE IF cmd = EchoVar THEN <<"35406838c6f56676de97758243093aea">>
    ELSE <<"md5 of">> \o cmd

get_var_name(cmd) == <<"CRAFT_">> \o md5_hexdigest(cmd)

\* project data: strings, dicts (items in insertion order), lists, and
\* values of another type
Str(text) == [t |-> "str", v |-> text]

Dict(items) == [t |-> "dict", v |-> items]

List(items) == [t |-> "list", v |-> items]

Item(k, v) == [k |-> k, v |-> v]

OtherValue == [t |-> "int", v |-> << >>]

\* data[key] of a dict, data[i] of a list, by position
Child(data, i) == IF data.t = "dict" THEN data.v[i].v ELSE data.v[i]

Under(i, paths) == [n \in 1..Len(paths) |-> <<i>> \o paths[n]]

\* _try_handle_container(data, host_vars): the strings _handle_string is
\* called on, in the order of the calls, each as its path from data
RECURSIVE try_handle_container(_)
RECURSIVE try_handle_items(_, _)
try_handle_container(data) ==
    IF data.t \in {"dict", "list"} THEN try_handle_items(data, 1) ELSE << >>

try_handle_items(data, i) ==
    IF i > Len(data.v)
    THEN << >>
    ELSE (IF Child(data, i).t = "str"
          THEN << <<i>> >>
          ELSE Under(i, try_handle_container(Child(data, i))))
         \o try_handle_items(data, i + 1)

RECURSIVE GetAt(_, _)
GetAt(data, path) ==
    IF path = << >> THEN data ELSE GetAt(Child(data, Head(path)), Tail(path))

\* data[key] = new_value at the end of the path
RECURSIVE SetAt(_, _, _)
SetAt(data, path, text) ==
    IF path = << >>
    THEN Str(text)
    ELSE LET i == Head(path)
             new == SetAt(Child(data, i), Tail(path), text)
         IN  IF data.t = "dict"
             THEN [data EXCEPT !.v[i].v = new]
             ELSE [data EXCEPT !.v[i] = new]

\* yaml_data.get("parts", {}): the position of the item "parts", 0 when missing
PartsIndex(data) ==
    IF \E i \in 1..Len(data.v) : data.v[i].k = "parts"
    THEN CHOOSE i \in 1..Len(data.v) : data.v[i].k = "parts"
    ELSE 0

\* HostVars(mapping={}, secrets=[], ...)
NoHostVars == [mapping |-> << >>, secrets |-> << >>]

\* host_vars.mapping[var_name] = new_value
MapSet(mapping, k, v) ==
    [x \in DOMAIN mapping \cup {k} |-> IF x = k THEN v ELSE mapping[x]]

\* strings a project may hold
Texts ==
    { <<"on">>,
      <<"https://github.com/", SecretOpen, "echo $MY_SECRET_VAR", Close, ".git">>,
      <<HostOpen, "echo $MY_VAR", Close>>,
      <<HostOpen, "echo $MY_VAR", Close, "-", SecretOpen, "echo $MY_SECRET_VAR", Close>>,
      <<SecretOpen, "echo $MY_SECRET_VAR", Close, " (", "x", Close>>,
      <<HostOpen, "echo $MY_VAR">>,
      <<HostOpen, "echo $RANDOM", Close>> }

\* the project of the unit test, with its three strings under "parts"
\* replaced and a string outside "parts"
Project(name, source, envvar1, envvar2) ==
    Dict(<< Item("name", Str(name)),
            Item("parts",
                 Dict(<< Item("mypart",
                          Dict(<< Item("source", Str(source)),
                                  Item("build-environment",
                                       List(<< Dict(<<Item("PART_ENVVAR1", Str(envvar1))>>),
                                               Dict(<<Item("PART_ENVVAR2", Str(envvar2))>>),
                                               OtherValue >>)) >>)) >>)) >>)

NoProject == Dict(<< >>)

\* the environment a managed instance is given: every host value, or none
FullEnv ==
    [n \in {get_var_name(c) : c \in {EchoSecretVar, EchoVar}} |->
        IF n = get_var_name(EchoVar)
        THEN <<"my_var_value">> ELSE <<"my_secret_var_value">>]

\* no host-mode run is being repeated
NoHostRun == [valid |-> FALSE, yaml_data |-> NoProject, secrets |-> << >>]

\* apply_host_variables is not in use
NoYaml ==
    /\ yaml_data = NoProject
    /\ yaml_data0 = NoProject
    /\ is_managed = FALSE
    /\ env = << >>
    /\ host_vars = NoHostVars
    /\ todo = << >>
    /\ subst_pc = "idle"
    /\ subst_error = None
    /\ ran = << >>
    /\ host_run = NoHostRun

\* apply_host_variables(yaml_data, is_managed, env), up to the first
\* _handle_string
ApplyHostVariables ==
    /\ subst_pc = "idle"
    /\ host_vars' = NoHostVars
    /\ todo' = IF PartsIndex(yaml_data) = 0
               THEN << >>
               ELSE Under(PartsIndex(yaml_data),
                          try_handle_container(Child(yaml_data, PartsIndex(yaml_data))))
    /\ subst_pc' = "handle"
    /\ UNCHANGED <<yaml_data, yaml_data0, is_managed, env, subst_error, ran,
                   host_run, orchVars, pathVars, fprVars>>

\* data[key] = _handle_string(value, host_vars) for the next string
HandleString ==
    /\ subst_pc = "handle"
    /\ todo # << >>
    /\ LET path == Head(todo)
           value == GetAt(yaml_data, path).v
           match == HOST_VAR_RE_search(value)
           var_name == get_var_name(match.command)
       IN  IF ~match.found
           THEN /\ todo' = Tail(todo)
                /\ UNCHANGED <<yaml_data, host_vars, subst_pc, subst_error, ran>>
           ELSE IF is_managed
           THEN IF var_name \in DOMAIN env
                THEN /\ host_vars' =
                          [host_vars EXCEPT !.secrets =
                              IF match.secret THEN Append(@, env[var_name]) ELSE @]
                     /\ yaml_data' = SetAt(yaml_data, path,
                                           str_replace(value, match.group, env[var_name]))
                     /\ todo' = Tail(todo)
                     /\ UNCHANGED <<subst_pc, subst_error, ran>>
                ELSE /\ subst_pc' = "done"
                     /\ subst_error' = "KeyError"
                     /\ UNCHANGED <<yaml_data, host_vars, todo, ran>>
           ELSE \E run \in check_output(match.command) :
                /\ ran' = Append(ran, match.command)
                /\ IF run.exit = 0
                   THEN LET new_value == rstrip(run.output)
                        IN  /\ host_vars' =
                                 [mapping |-> MapSet(host_vars.mapping, var_name, new_value),
                                  secrets |-> IF match.secret
                                              THEN Append(host_vars.secrets, new_value)
                                              ELSE host_vars.secrets]
                            /\ yaml_data' = SetAt(yaml_data, path,
                                                  str_replace(value, match.group, new_value))
                            /\ todo' = Tail(todo)
                            /\ UNCHANGED <<subst_pc, subst_error>>
                   ELSE /\ subst_pc' = "done"
                        /\ subst_error' = "CalledProcessError"
                        /\ UNCHANGED <<yaml_data, host_vars, todo>>
    /\ UNCHANGED <<yaml_data0, is_managed, env, host_run, orchVars, pathVars,
                   fprVars>>

\* return host_vars
ReturnHostVars ==
    /\ subst_pc = "handle"
    /\ todo = << >>
    /\ subst_pc' = "done"
    /\ UNCHANGED <<yaml_data, yaml_data0, is_managed, env, host_vars, todo,
                   subst_error, ran, host_run, orchVars, pathVars, fprVars>>

\* the caller of a host-mode run that returned hands a copy of the same
\* project and the returned mapping to a managed-mode run:
\* apply_host_variables(copy, is_managed=True, env=host_vars.mapping)
RepeatManaged ==
    /\ subst_pc = "done"
    /\ ~is_managed
    /\ subst_error = None
    /\ host_run' = [valid |-> TRUE, yaml_data |-> yaml_data,
                    secrets |-> host_vars.secrets]
    /\ yaml_data' = yaml_data0
    /\ is_managed' = TRUE
    /\ env' = host_vars.mapping
    /\ host_vars' = NoHostVars
    /\ ran' = << >>
    /\ todo' = << >>
    /\ subst_pc' = "idle"
    /\ UNCHANGED <<yaml_data0, subst_error, orchVars, pathVars, fprVars>>

-----------------------------------------------------------------------------
(* Specification of one build process *)

\* a keyring file holding its own key, as an earlier installation left it
InstalledFile(fp) == [keys |-> {fp}, mode |-> KeyringMode]

\* the filesystem with the keys of `present` already installed in the
\* default keyrings directory
InitialFs(present) ==
    [f \in {keyring_file(fp, None) : fp \in present} |->
        InstalledFile(CHOOSE fp \in present : keyring_file(fp, None) = f)]

KeyAssetNames == {asset_file(k) : k \in KeyIds}

\* the path resolver has been given nothing
NoPaths == [resolved_keyring |-> FALSE, resolved_asset |-> FALSE,
            keyring |-> [dir |-> None, name |-> << >>],
            other_keyring |-> [dir |-> None, name |-> << >>],
            asset |-> << >>]

\* every process is outside install_package_repository_key and
\* get_key_fingerprints
InitProcs ==
    /\ tmpdirs = [p \in Procs |-> NoDir]
    /\ pc = [p \in Procs |-> "idle"]
    /\ package_repo = [p \in Procs |-> OtherRepo]
    /\ key_id = [p \in Procs |-> NoKeyId]
    /\ key_server = [p \in Procs |-> None]
    /\ key_path = [p \in Procs |-> NoPath]
    /\ outcome = [p \in Procs |-> NoOutcome]
    /\ trace = [p \in Procs |-> << >>]
    /\ cmds = [p \in Procs |-> << >>]
    /\ fs0 = [p \in Procs |-> fs]
    /\ prev = [p \in Procs |-> NoPrev]
    /\ fpr_pc = "idle"
    /\ key_data = NoText
    /\ temp_file = NoFile
    /\ fingerprints = NoFingerprints

Init ==
    /\ keyrings_dir \in {DefaultKeyringsDir, CustomKeyringsDir}
    /\ key_assets \in SUBSET KeyAssetNames
    /\ \E present \in SUBSET Fingerprints : fs = InitialFs(present)
    /\ InitProcs
    /\ NoYaml
    /\ in_id = << >>
    /\ in_dir = None
    /\ in_other = << >>
    /\ out_path = NoPaths

Step(p) ==
    \/ \E r \in PackageRepos : Call(p, r)
    \/ IsFile(p)
    \/ ListKey(p)
    \/ FindAsset(p)
    \/ ReadText(p)
    \/ Import(p)
    \/ ChmodImport(p)
    \/ MkDTemp(p)
    \/ ChmodTmpDir(p)
    \/ RecvKeys(p)
    \/ RmTmpDir(p)
    \/ ChmodRecv(p)

Next == Step(1)

Spec == Init /\ [][Next]_vars

-----------------------------------------------------------------------------
(* Specification of one build process that calls get_key_fingerprints and
   install_package_repository_key, one after the other, in any order *)

\* every asset or none is present, every key or none is installed
InitScratch ==
    /\ keyrings_dir \in {DefaultKeyringsDir, CustomKeyringsDir}
    /\ key_assets \in {{}, KeyAssetNames}
    /\ \E present \in {{}, Fingerprints} : fs = InitialFs(present)
    /\ InitProcs
    /\ NoYaml
    /\ in_id = << >>
    /\ in_dir = None
    /\ in_other = << >>
    /\ out_path = NoPaths

CallScratch(r) ==
    /\ fpr_pc \in {"idle", "done"}
    /\ Call(1, r)

NextScratch ==
    \/ \E r \in PackageRepos : CallScratch(r)
    \/ IsFile(1)
    \/ ListKey(1)
    \/ FindAsset(1)
    \/ ReadText(1)
    \/ Import(1)
    \/ ChmodImport(1)
    \/ MkDTemp(1)
    \/ ChmodTmpDir(1)
    \/ RecvKeys(1)
    \/ RmTmpDir(1)
    \/ ChmodRecv(1)
    \/ \E k \in KeyTexts : GetKeyFingerprints(k)
    \/ ImportKeys
    \/ TempFileExit

SpecScratch == InitScratch /\ [][NextScratch]_vars

-----------------------------------------------------------------------------
(* Specification of two independent build processes, each invoking
   install_package_repository_key once, for the same key identifier, on the
   same keyrings directory; every step of Step is atomic *)

\* the filesystem InitialFs(present), where the keyring file written for
\* F1 may also exist already, holding another key only
InitialFsWith(present, foreign) ==
    LET base == InitialFs(present)
        f == keyring_file(F1, keyrings_dir)
    IN  IF foreign /\ f \notin DOMAIN base
        THEN [x \in DOMAIN base \cup {f} |->
                IF x = f THEN InstalledFile(F2) ELSE base[x]]
        ELSE base

InitConc ==
    /\ keyrings_dir \in {DefaultKeyringsDir, CustomKeyringsDir}
    /\ key_assets \in SUBSET KeyAssetNames
    /\ \E present \in SUBSET Fingerprints, foreign \in BOOLEAN :
          fs = InitialFsWith(present, foreign)
    /\ InitProcs
    /\ NoYaml
    /\ in_id = << >>
    /\ in_dir = None
    /\ in_other = << >>
    /\ out_path = NoPaths

\* process p invokes the orchestrator, once, for the key identifier the
\* other process was invoked for
CallConc(p, r) ==
    /\ pc[p] = "idle"
    /\ Call(p, r)
    /\ \A q \in Procs \ {p} : pc[q] # "idle" => key_id'[p] = key_id[q]

StepConc(p) ==
    \/ \E r \in PackageRepos : CallConc(p, r)
    \/ IsFile(p)
    \/ ListKey(p)
    \/ FindAsset(p)
    \/ ReadText(p)
    \/ Import(p)
    \/ ChmodImport(p)
    \/ MkDTemp(p)
    \/ ChmodTmpDir(p)
    \/ RecvKeys(p)
    \/ RmTmpDir(p)
    \/ ChmodRecv(p)

NextConc == \E p \in Procs : StepConc(p)

SpecConc == InitConc /\ [][NextConc]_vars

-----------------------------------------------------------------------------
(* Specification of the path resolver: _keyring_file and the asset name of
   find_asset_with_key_id, applied to identifiers of every length up to
   MaxIdLen *)

MaxIdLen == 9

PathAlphabet == {"a", "0"}

PathIds == UNION {[1..n -> PathAlphabet] : n \in 1..MaxIdLen}

StrLower(s) == [i \in 1..Len(s) |-> LowerChar(s[i])]

\* identifiers to compare the paths of k with: k in the other case, k with
\* a character put in front or taken away, k with another last character
Variants(k) ==
    {StrUpper(k), StrLower(k), <<"0">> \o k, <<"a">> \o k,
     SubSeq(k, 2, Len(k)) \o <<"0">>,
     [k EXCEPT ![Len(k)] = IF @ = "0" THEN "a" ELSE "0"]}

InitPath ==
    /\ keyrings_dir \in {DefaultKeyringsDir, CustomKeyringsDir}
    /\ key_assets = {}
    /\ fs = InitialFs({})
    /\ InitProcs
    /\ NoYaml
    /\ in_id \in PathIds
    /\ in_dir \in {None, DefaultKeyringsDir, CustomKeyringsDir}
    /\ in_other = in_id
    /\ out_path = NoPaths

\* _keyring_file(in_id, in_dir), and the same for a second identifier
ResolveKeyringFile ==
    /\ ~out_path.resolved_keyring
    /\ \E other \in Variants(in_id) :
          /\ in_other' = other
          /\ out_path' = [out_path EXCEPT !.resolved_keyring = TRUE,
                                          !.keyring = keyring_file(in_id, in_dir),
                                          !.other_keyring = keyring_file(other, in_dir)]
    /\ UNCHANGED <<in_id, in_dir, orchVars, fprVars, substVars>>

\* key_file of find_asset_with_key_id(key_id=in_id)
ResolveAssetFile ==
    /\ ~out_path.resolved_asset
    /\ out_path' = [out_path EXCEPT !.resolved_asset = TRUE,
                                    !.asset = asset_file(in_id)]
    /\ UNCHANGED <<in_id, in_dir, in_other, orchVars, fprVars, substVars>>

NextPath == ResolveKeyringFile \/ ResolveAssetFile

SpecPath == InitPath /\ [][NextPath]_vars

-----------------------------------------------------------------------------
(* Specification of apply_host_variables: one call on one project, and a
   managed-mode call repeating a host-mode call *)

InitSubst ==
    /\ keyrings_dir = DefaultKeyringsDir
    /\ key_assets = {}
    /\ fs = InitialFs({})
    /\ InitProcs
    /\ in_id = << >>
    /\ in_dir = None
    /\ in_other = << >>
    /\ out_path = NoPaths
    /\ \E source, envvar1, envvar2 \in Texts :
          yaml_data = Project(<<HostOpen, "echo $MY_VAR", Close>>,
                              source, envvar1, envvar2)
    /\ yaml_data0 = yaml_data
    /\ is_managed \in BOOLEAN
    /\ env \in IF is_managed THEN {<< >>, FullEnv} ELSE {<< >>}
    /\ host_vars = NoHostVars
    /\ todo = << >>
    /\ subst_pc = "idle"
    /\ subst_error = None
    /\ ran = << >>
    /\ host_run = NoHostRun

NextSubst == ApplyHostVariables \/ HandleString \/ ReturnHostVars \/ RepeatManaged

SpecSubst == InitSubst /\ [][NextSubst]_vars

-----------------------------------------------------------------------------
(* Properties of the path resolver *)

\* the last 8 characters of k upper-cased, all of k when it is shorter
ClaimedShortId(k) ==
    IF Len(k) < 8
    THEN [i \in 1..Len(k) |-> UpperChar(k[i])]
    ELSE [i \in 1..8 |-> UpperChar(k[Len(k) - 8 + i])]

\* C9: the keyring path of identifier k in directory d is
\* d/craft-<SHORT_ID>.gpg (d the default directory when none is given) and
\* the asset name is <SHORT_ID>.asc, SHORT_ID being the last 8 characters
\* of k upper-cased or all of k upper-cased when k is shorter; two
\* identifiers resolve to the same path exactly when their SHORT_IDs are
\* equal, whatever the state of the manager.
C9_PathDeterminism ==
    /\ out_path.resolved_keyring =>
          /\ out_path.keyring =
                [dir |-> IF in_dir = None THEN "/etc/apt/keyrings" ELSE in_dir,
                 name |-> <<"craft-">> \o ClaimedShortId(in_id) \o <<".gpg">>]
          /\ (ClaimedShortId(in_id) = ClaimedShortId(in_other))
                <=> (out_path.other_keyring = out_path.keyring)
    /\ out_path.resolved_asset =>
          out_path.asset = ClaimedShortId(in_id) \o <<".asc">>

C9_Witness ==
    /\ out_path.resolved_keyring /\ out_path.resolved_asset
    /\ Len(in_id) > 8
    /\ in_other # in_id
    /\ out_path.other_keyring = out_path.keyring
    /\ in_dir = None /\ keyrings_dir = CustomKeyringsDir

-----------------------------------------------------------------------------
(* Properties of install_package_repository_key *)

InTrace(p, op) == \E i \in 1..Len(trace[p]) : trace[p][i] = op

ToolRuns(p, verb) == {i \in 1..Len(cmds[p]) : cmds[p][i].verb = verb}

\* the keyring file of the configured keyrings directory for the key of
\* the invocation of process p
CanonicalFile(p) == [dir |-> keyrings_dir,
                     name |-> <<"craft-">> \o short_id(key_id[p]) \o <<".gpg">>]

ReturnsTrue(p) == pc[p] = "done" /\ outcome[p].kind = "return" /\ outcome[p].value

ReturnsFalse(p) == pc[p] = "done" /\ outcome[p].kind = "return" /\ ~outcome[p].value

Raises(p, error) == pc[p] = "done" /\ outcome[p].kind = "raise" /\ outcome[p].error = error

\* gpg --list-key ended as the presence check expects: listed, or not found
NoUnexpectedExit(p) ==
    \A i \in ToolRuns(p, "--list-key") : cmds[p][i].exit \in {0, 2}

\* C1 (as claimed): the second of two invocations in a row with the same
\* reference, the first of which found the key absent and returned True,
\* returns False and leaves the key set of the keyring file unchanged.
C1_Idempotency ==
    (/\ pc[1] = "done"
     /\ prev[1].valid /\ prev[1].kind = "return" /\ prev[1].value
     /\ prev[1].absent0
     /\ NoUnexpectedExit(1))
    => /\ ReturnsFalse(1)
       /\ KeysOf(fs, CanonicalFile(1)) = KeysOf(fs0[1], CanonicalFile(1))

\* C2 (as claimed): an invocation that returns (True or False) leaves the
\* required key in the keyring file of the configured keyrings directory.
C2_AtomicOutcome ==
    (pc[1] = "done" /\ outcome[1].kind = "return")
    => HasKey(fs, CanonicalFile(1), key_id[1])

\* the runs of gpg --import and gpg --recv-keys of the invocation
InstallRuns(p) == ToolRuns(p, "--import") \cup ToolRuns(p, "--recv-keys")

\* the invocation performed an installation: one import or receive-keys
\* run, ended with code 0, and the permission change after it
PerformedInstallation(p) ==
    /\ Cardinality(InstallRuns(p)) = 1
    /\ \A i \in InstallRuns(p) : cmds[p][i].exit = 0
    /\ InTrace(p, "chmod")

\* the presence check found the key: gpg --list-key listed it
FoundInstalled(p) == \E i \in ToolRuns(p, "--list-key") : cmds[p][i].exit = 0

\* C3: an invocation returns True exactly when it performed an
\* installation and False exactly when the presence check found the key;
\* returning False it has looked up no asset, run no import or fetch,
\* changed no permission and left the filesystem as it was.
C3_InstallationOutcome ==
    pc[1] = "done" =>
       /\ ReturnsTrue(1) <=> PerformedInstallation(1)
       /\ ReturnsFalse(1) <=> FoundInstalled(1)
       /\ ReturnsFalse(1) =>
             /\ trace[1] = <<"is_file", "list_key", "is_key_installed:True">>
             /\ InstallRuns(1) = {}
             /\ fs = fs0[1]
             /\ tmpdirs[1] = NoDir

C3_Witness ==
    /\ ReturnsFalse(1) /\ FoundInstalled(1)
    /\ prev[1].valid /\ prev[1].kind = "return" /\ prev[1].value

\* <SHORT_ID>.asc exists in the assets directory
AssetExists(p) == short_id(key_id[p]) \o <<".asc">> \in key_assets

\* the presence check of the invocation answered False
ReportedAbsent(p) == InTrace(p, "is_key_installed:False")

\* C4: once the presence check has reported the key absent and the asset
\* <SHORT_ID>.asc exists, the invocation installs from the asset (it reads
\* it and imports its text into the keyring file) and never fetches from a
\* key server, whatever key server is configured.
C4_AssetPrecedence ==
    (ReportedAbsent(1) /\ InTrace(1, "find_asset") /\ AssetExists(1)) =>
       /\ ToolRuns(1, "--recv-keys") = {}
       /\ ~InTrace(1, "mkdtemp")
       /\ tmpdirs[1] = NoDir
       /\ key_path[1] = short_id(key_id[1]) \o <<".asc">>
       /\ pc[1] = "done" =>
             \/ InTrace(1, "read_text:OSError")
             \/ /\ Cardinality(ToolRuns(1, "--import")) = 1
                /\ \A i \in ToolRuns(1, "--import") :
                      /\ cmds[1][i].stdin = read_text(key_path[1])
                      /\ cmds[1][i].keyring.path = CanonicalFile(1)
       /\ (pc[1] = "done" /\ PerformedInstallation(1)) => ReturnsTrue(1)

C4_Witness ==
    /\ ReturnsTrue(1) /\ AssetExists(1)
    /\ key_id[1] = I2 /\ package_repo[1].key_server = OtherKeyServer
    /\ ToolRuns(1, "--import") # {}

C6_PermissionInvariant ==
    ReturnsTrue(1) =>
       /\ CanonicalFile(1) \in DOMAIN fs
       /\ fs[CanonicalFile(1)].mode = "0644"

C6_Witness ==
    /\ ReturnsTrue(1)
    /\ ToolRuns(1, "--recv-keys") # {}
    /\ CanonicalFile(1) \notin DOMAIN fs0[1]
    /\ prev[1].valid /\ prev[1].kind = "raise"

\* the keyring file is_key_installed inspects
InspectedFile(p) == [dir |-> "/etc/apt/keyrings",
                     name |-> <<"craft-">> \o short_id(key_id[p]) \o <<".gpg">>]

\* C7: when the keyring file is_key_installed inspects does not exist, the
\* check answers False without running the tool, and the filesystem is
\* after the check as it was before.
C7_PresenceShortCircuit ==
    (InTrace(1, "is_file") /\ InspectedFile(1) \notin DOMAIN fs0[1]) =>
       /\ ToolRuns(1, "--list-key") = {}
       /\ Len(trace[1]) >= 2 /\ trace[1][2] = "is_key_installed:False"
       /\ Len(trace[1]) = 2 => (fs = fs0[1] /\ pc[1] = "find_asset")

C7_Witness ==
    /\ InspectedFile(1) \notin DOMAIN fs0[1]
    /\ trace[1] = <<"is_file", "is_key_installed:False">>
    /\ keyrings_dir = DefaultKeyringsDir

\* C8: when the keyring file exists the check runs gpg --list-key once and
\* answers True exactly when it exits with code 0 and False for code 2 and
\* for every other code, without raising and without changing the keyring.
C8_PresenceExitCodes ==
    \A i \in ToolRuns(1, "--list-key") :
       /\ i = 1
       /\ InspectedFile(1) \in DOMAIN fs0[1]
       /\ cmds[1][i].keyring.path = InspectedFile(1)
       /\ Len(trace[1]) >= 3
       /\ SubSeq(trace[1], 1, 2) = <<"is_file", "list_key">>
       /\ trace[1][3] = (IF cmds[1][i].exit = 0 THEN "is_key_installed:True"
                         ELSE "is_key_installed:False")
       /\ Len(trace[1]) = 3 =>
             /\ fs = fs0[1]
             /\ IF cmds[1][i].exit = 0 THEN ReturnsFalse(1)
                ELSE pc[1] = "find_asset" /\ outcome[1].kind = "none"

C8_Witness ==
    /\ Len(trace[1]) = 3
    /\ ToolRuns(1, "--list-key") = {1}
    /\ cmds[1][1].exit = 1
    /\ HasKey(fs, InspectedFile(1), key_id[1])

\* the import and receive-keys runs of the invocation that exited non-zero
FailedInstallRuns(p) == {i \in InstallRuns(p) : cmds[p][i].exit # 0}

\* the outcome is the key-install error carrying the output of tool run i
\* and the context of its path: the key material given to the import, or
\* the key id and key server given to receive-keys
CarriesFailureOf(p, i) ==
    /\ Raises(p, "AptGPGKeyInstallError")
    /\ outcome[p].output = [verb |-> cmds[p][i].verb, exit |-> cmds[p][i].exit]
    /\ cmds[p][i].verb = "--import" =>
          /\ outcome[p].key = cmds[p][i].stdin
          /\ outcome[p].key = <<"key material of">> \o short_id(key_id[p]) \o <<".asc">>
    /\ cmds[p][i].verb = "--recv-keys" =>
          /\ outcome[p].key_id = key_id[p]
          /\ outcome[p].key_server = cmds[p][i].keyserver

\* C10 (as claimed): every failure of step 3 or step 4, the reading of the
\* asset and the permission fix included, reaches the caller as the
\* key-install error with the tool's output and the context of the path.
C10_AsClaimed ==
    (pc[1] = "done" /\ InTrace(1, "find_asset") /\ outcome[1].kind = "raise") =>
       /\ Raises(1, "AptGPGKeyInstallError")
       /\ \A i \in FailedInstallRuns(1) : CarriesFailureOf(1, i)

\* C10 (amended): a non-zero exit of the import or of the receive-keys run
\* reaches the caller as the key-install error carrying that run's output
\* and the context of its path; a failure of reading the asset or of the
\* permission fix reaches the caller as the OSError it is; an invocation
\* fails in steps 3 and 4 in no other way, and then returns no value.
C10_FailurePropagation ==
    (pc[1] = "done" /\ InTrace(1, "find_asset")) =>
       /\ \A i \in FailedInstallRuns(1) : CarriesFailureOf(1, i)
       /\ (InTrace(1, "read_text:OSError") \/ InTrace(1, "chmod:OSError"))
             => Raises(1, "OSError")
       /\ Raises(1, "AptGPGKeyInstallError") => FailedInstallRuns(1) # {}
       /\ outcome[1].kind = "raise" =>
             \/ FailedInstallRuns(1) # {}
             \/ InTrace(1, "read_text:OSError")
             \/ InTrace(1, "chmod:OSError")
       /\ outcome[1].kind = "raise" => ~outcome[1].value

C10_Witness ==
    /\ Raises(1, "AptGPGKeyInstallError")
    /\ outcome[1].key_server = OtherKeyServer
    /\ outcome[1].key_id = I2
    /\ outcome[1].output = [verb |-> "--recv-keys", exit |-> 2]

-----------------------------------------------------------------------------
(* Properties of concurrent invocations *)

BothDone == \A p \in Procs : pc[p] = "done"

\* C11 (as claimed): when two processes have run the orchestrator
\* concurrently for one key identifier and both have returned, the keyring
\* file of the configured directory holds the key, with mode 0644 and with
\* every key it held before; an invocation that has not ended can take a
\* step.
C11_ConcurrentInstallers ==
    /\ (\E p \in Procs : pc[p] \notin {"idle", "done"}) => ENABLED NextConc
    /\ (BothDone /\ key_id[1] = key_id[2]
        /\ \A p \in Procs : outcome[p].kind = "return") =>
          /\ HasKey(fs, CanonicalFile(1), key_id[1])
          /\ fs[CanonicalFile(1)].mode = "0644"
          /\ \A p \in Procs :
                KeysOf(fs0[p], CanonicalFile(1)) \subseteq KeysOf(fs, CanonicalFile(1))

-----------------------------------------------------------------------------
(* Properties of the dispatch and of the store *)

RecognizedVariant(p) ==
    package_repo[p].type \in {"PackageRepositoryAptPPA", "PackageRepositoryApt"}

\* C12: an invocation with a reference that is neither a PPA reference nor
\* a direct APT repository has ended at once by raising an error that is
\* not the key-install error: no presence check was made, no tool was run,
\* and the filesystem is as it was when the invocation began.
C12_UnrecognizedVariant ==
    (pc[1] # "idle" /\ ~RecognizedVariant(1)) =>
       /\ pc[1] = "done"
       /\ outcome[1].kind = "raise"
       /\ outcome[1].error # "AptGPGKeyInstallError"
       /\ trace[1] = << >>
       /\ cmds[1] = << >>
       /\ fs = fs0[1]
       /\ tmpdirs[1] = NoDir

C12_Witness ==
    /\ pc[1] = "done" /\ package_repo[1] = OtherRepo
    /\ outcome[1].kind = "raise"
    /\ prev[1].valid

-----------------------------------------------------------------------------
(* Properties of the scratch files *)

\* C13: once install_package_repository_key has returned or raised, the
\* scratch home directory of the keyserver fetch is gone, whether the tool
\* succeeded, the tool failed or the permission change after it failed;
\* once get_key_fingerprints has returned or raised, its temporary keyring
\* is gone; and no step of get_key_fingerprints changes a keyring file.
C13_ScratchCleanup ==
    /\ [](pc[1] \in {"idle", "done"} => tmpdirs[1] = NoDir)
    /\ [](fpr_pc \in {"idle", "done"} => ~temp_file.exists)
    /\ [][fpr_pc' # fpr_pc => fs' = fs]_vars

C13_Witness ==
    /\ pc[1] = "done" /\ InTrace(1, "mkdtemp") /\ InTrace(1, "chmod:OSError")
    /\ fpr_pc = "done" /\ fingerprints.value = <<F1>>
    /\ fs # InitialFs({})

-----------------------------------------------------------------------------
(* Properties of the keyring store *)

\* C14: no step of any invocation deletes a keyring file or takes a key
\* out of one, and a step of an invocation for key identifier K changes or
\* creates no keyring file other than <keyrings_dir>/craft-<SHORT_ID of K>.gpg.
C14_AdditiveStore ==
    [][/\ DOMAIN fs \subseteq DOMAIN fs'
       /\ \A f \in DOMAIN fs : fs[f].keys \subseteq fs'[f].keys
       /\ \A f \in DOMAIN fs' :
             (f \notin DOMAIN fs \/ fs'[f] # fs[f]) => f = CanonicalFile(1)]_vars

\* an invocation added the key to a keyring file that existed without it,
\* beside another keyring file
C14_Witness ==
    /\ ReturnsTrue(1)
    /\ CanonicalFile(1) \in DOMAIN fs0[1]
    /\ ~HasKey(fs0[1], CanonicalFile(1), key_id[1])
    /\ HasKey(fs, CanonicalFile(1), key_id[1])
    /\ Cardinality(DOMAIN fs) > 1

-----------------------------------------------------------------------------
(* Properties of the host variables *)

\* the references $(HOST:cmd) and $(HOST_SECRET:cmd) of a string, each from
\* its opener to the closing parenthesis that follows it first
RECURSIVE ClaimedRefs(_)
ClaimedRefs(text) ==
    LET hits == {i \in 1..Len(text) :
                    /\ text[i] \in {"$(HOST:", "$(HOST_SECRET:"}
                    /\ \E j \in (i + 1)..Len(text) : text[j] = ")"}
    IN  IF hits = {}
        THEN << >>
        ELSE LET i == SeqMin(hits)
                 j == SeqMin({n \in (i + 1)..Len(text) : text[n] = ")"})
             IN  <<[from |-> i, to |-> j, secret |-> text[i] = "$(HOST_SECRET:",
                    cmd |-> SubSeq(text, i + 1, j - 1)]>>
                 \o [n \in 1..Len(ClaimedRefs(SubSeq(text, j + 1, Len(text)))) |->
                       LET r == ClaimedRefs(SubSeq(text, j + 1, Len(text)))[n]
                       IN  [r EXCEPT !.from = @ + j, !.to = @ + j]]

\* what the commands of the host print, the final newline left out
OutputOf(cmd) ==
    IF cmd = <<"echo $MY_VAR">> THEN <<"my_var_value">>
    ELSE IF cmd = <<"echo $MY_SECRET_VAR">> THEN <<"my_secret_var_value">>
    ELSE << >>

\* the string with every reference replaced by the output of its command
RECURSIVE ClaimedText(_)
ClaimedText(text) ==
    IF ClaimedRefs(text) = << >>
    THEN text
    ELSE LET r == ClaimedRefs(text)[1]
         IN  SubSeq(text, 1, r.from - 1) \o OutputOf(r.cmd)
             \o ClaimedText(SubSeq(text, r.to + 1, Len(text)))

\* the strings under "parts" of a project, in traversal order
PartsTexts(data) ==
    <<GetAt(data, <<2, 1, 1>>).v, GetAt(data, <<2, 1, 2, 1, 1>>).v,
      GetAt(data, <<2, 1, 2, 2, 1>>).v>>

\* the references of a project, in traversal order
ProjectRefs(data) ==
    ClaimedRefs(PartsTexts(data)[1]) \o ClaimedRefs(PartsTexts(data)[2])
       \o ClaimedRefs(PartsTexts(data)[3])

RECURSIVE SecretsOf(_)
SecretsOf(refs) ==
    IF refs = << >>
    THEN << >>
    ELSE (IF Head(refs).secret THEN <<OutputOf(Head(refs).cmd)>> ELSE << >>)
         \o SecretsOf(Tail(refs))

\* C15 (as claimed): when apply_host_variables has ended in host mode, it
\* has returned; every string under "parts" has each of its references
\* replaced by the output of the command and is unchanged when it has none,
\* the string outside "parts" is unchanged, the mapping holds
\* CRAFT_<md5(cmd)> -> value for exactly the references, and secrets lists
\* the values of the HOST_SECRET references in traversal order.
C15_HostSubstitution ==
    (subst_pc = "done" /\ ~is_managed) =>
       LET refs == ProjectRefs(yaml_data0)
       IN  /\ subst_error = None
           /\ GetAt(yaml_data, <<1>>) = GetAt(yaml_data0, <<1>>)
           /\ \A n \in 1..3 :
                 PartsTexts(yaml_data)[n] = ClaimedText(PartsTexts(yaml_data0)[n])
           /\ DOMAIN host_vars.mapping =
                 {<<"CRAFT_">> \o md5_hexdigest(refs[n].cmd) : n \in 1..Len(refs)}
           /\ \A n \in 1..Len(refs) :
                 host_vars.mapping[<<"CRAFT_">> \o md5_hexdigest(refs[n].cmd)]
                    = OutputOf(refs[n].cmd)
           /\ host_vars.secrets = SecretsOf(refs)

-----------------------------------------------------------------------------
(* Properties of the invocation as a whole *)

\* C16 (as claimed): every run of the tool within an invocation, the
\* list-key of the presence check as well as the import or receive-keys of
\* the installers, is given the one keyring file
\* <keyrings_dir>/craft-<SHORT_ID>.gpg of the configured directory.
C16_SameKeyringFile ==
    \A i \in 1..Len(cmds[1]) :
       cmds[1][i].keyring = [scheme |-> "gnupg-ring", path |-> CanonicalFile(1)]

AssetOps == {"read_text", "read_text:OSError", "import"}

KeyserverOps == {"mkdtemp", "chmod_tmpdir", "recv_keys", "rm_tmpdir"}

InstallOps == AssetOps \cup KeyserverOps \cup {"find_asset", "chmod", "chmod:OSError"}

\* C17: an invocation with a recognized variant begins with the presence
\* check; it performs no step of an installation before the presence check
\* has reported the key absent; it takes steps of the asset path or of the
\* keyserver path, never of both; while it has not ended it can take a
\* step, and it ends within nine operations; ended, it is in exactly one
\* of ALREADY_PRESENT (the check reported the key present, False is
\* returned), INSTALLED (True is returned after the permission change) and
\* FAILED (an error is raised).
C17_StateMachine ==
    (RecognizedVariant(1) /\ pc[1] # "idle") =>
       /\ trace[1] = << >> => pc[1] = "is_key_installed"
       /\ trace[1] # << >> => trace[1][1] = "is_file"
       /\ \A i \in 1..Len(trace[1]) :
             trace[1][i] \in InstallOps =>
                /\ \E j \in 1..(i - 1) : trace[1][j] = "is_key_installed:False"
                /\ ~InTrace(1, "is_key_installed:True")
       /\ ~(\E i, j \in 1..Len(trace[1]) :
               trace[1][i] \in AssetOps /\ trace[1][j] \in KeyserverOps)
       /\ pc[1] # "done" => (ENABLED Next /\ outcome[1].kind = "none")
       /\ Len(trace[1]) <= 9
       /\ pc[1] = "done" =>
             /\ outcome[1].kind \in {"return", "raise"}
             /\ ReturnsFalse(1) <=> trace[1][Len(trace[1])] = "is_key_installed:True"
             /\ ReturnsTrue(1) <=> trace[1][Len(trace[1])] = "chmod"
             /\ outcome[1].kind = "raise" <=>
                   trace[1][Len(trace[1])] \notin {"is_key_installed:True", "chmod"}

C17_Witness ==
    /\ ReturnsTrue(1)
    /\ trace[1] = <<"is_file", "list_key", "is_key_installed:False", "find_asset",
                    "mkdtemp", "chmod_tmpdir", "recv_keys", "rm_tmpdir", "chmod">>

\* C18: an invocation runs the tool at most once for the presence check
\* and at most once for an installation; a failed import or receive-keys
\* run is the last run of the invocation, which then only removes the
\* scratch directory and raises: no keyserver fetch follows a failed
\* import, no second fetch follows a failed one.
C18_NoRetries ==
    /\ Cardinality(ToolRuns(1, "--list-key")) <= 1
    /\ Cardinality(InstallRuns(1)) <= 1
    /\ Len(cmds[1]) = Cardinality(ToolRuns(1, "--list-key")) + Cardinality(InstallRuns(1))
    /\ \A i \in FailedInstallRuns(1) :
          /\ i = Len(cmds[1])
          /\ pc[1] \in {"rm_tmpdir", "done"}
          /\ trace[1][Len(trace[1])] \in {"import", "recv_keys", "rm_tmpdir"}
          /\ pc[1] = "done" => Raises(1, "AptGPGKeyInstallError")

C18_Witness ==
    /\ pc[1] = "done"
    /\ package_repo[1] = AptRepo(I2, OtherKeyServer)
    /\ Len(cmds[1]) = 2
    /\ cmds[1][2].verb = "--import" /\ cmds[1][2].exit # 0

\* no run of the tool and no filesystem operation of the invocation failed
ToolSucceeds(p) ==
    /\ NoUnexpectedExit(p)
    /\ \A i \in InstallRuns(p) : cmds[p][i].exit = 0
    /\ ~InTrace(p, "read_text:OSError") /\ ~InTrace(p, "chmod:OSError")

\* C19 (as claimed): an invocation that follows a failed invocation for
\* the same reference starts with the presence check; when the failed one
\* left the keyring file of the configured directory absent or without the
\* key and nothing fails this time, it returns True and that keyring file
\* holds the key with mode 0644.
C19_RetryAfterFailure ==
    (RecognizedVariant(1) /\ prev[1].valid /\ prev[1].kind = "raise") =>
       /\ (pc[1] # "idle" /\ trace[1] # << >>) => trace[1][1] = "is_file"
       /\ (/\ pc[1] = "done"
           /\ ~HasKey(fs0[1], CanonicalFile(1), key_id[1])
           /\ ToolSucceeds(1)) =>
             /\ ReturnsTrue(1)
             /\ HasKey(fs, CanonicalFile(1), key_id[1])
             /\ fs[CanonicalFile(1)].mode = "0644"

\* C20 (as claimed): every run of the tool, list-key, import and
\* receive-keys alike, is given the options --batch and
\* --no-default-keyring and an environment with LANG=C.UTF-8.
C20_ToolBaseline ==
    \A i \in 1..Len(cmds[1]) :
       /\ cmds[1][i].prefix = <<"gpg", "--batch", "--no-default-keyring">>
       /\ cmds[1][i].lang = "C.UTF-8"

-----------------------------------------------------------------------------
(* Properties of the keyserver fetch *)

\* the last run of the tool in the invocation of process p
LastRun(p) == cmds[p][Len(cmds[p])]

\* C21: a step that invokes receive-keys finds the scratch home directory
\* with mode 0700, after its chmod; on the keyserver path the mode of the
\* keyring file changes only in the step after the scratch directory is
\* gone, only to 0644 and only when receive-keys exited with code 0; an
\* invocation whose receive-keys exited non-zero has made no permission
\* change, and a keyring file that existed has the mode it had.
C21_KeyserverOrdering ==
    /\ [][(/\ Len(cmds'[1]) > Len(cmds[1])
           /\ cmds'[1][Len(cmds'[1])].verb = "--recv-keys") =>
             /\ tmpdirs[1] = "0700"
             /\ trace[1][Len(trace[1])] = "chmod_tmpdir"]_vars
    /\ [][(/\ InTrace(1, "mkdtemp")
           /\ CanonicalFile(1) \in DOMAIN fs
           /\ fs'[CanonicalFile(1)].mode # fs[CanonicalFile(1)].mode) =>
             /\ fs'[CanonicalFile(1)].mode = "0644"
             /\ LastRun(1).verb = "--recv-keys" /\ LastRun(1).exit = 0
             /\ trace[1][Len(trace[1])] = "rm_tmpdir"]_vars
    /\ [](\A i \in ToolRuns(1, "--recv-keys") :
             cmds[1][i].exit # 0 =>
                /\ ~InTrace(1, "chmod") /\ ~InTrace(1, "chmod:OSError")
                /\ CanonicalFile(1) \in DOMAIN fs0[1] =>
                      fs[CanonicalFile(1)].mode = fs0[1][CanonicalFile(1)].mode)

\* a failed fetch on a keyring file that existed with another mode, and
\* before it a chmod of the scratch directory
C21_Witness ==
    /\ Raises(1, "AptGPGKeyInstallError")
    /\ ToolRuns(1, "--recv-keys") # {}
    /\ InTrace(1, "chmod_tmpdir")
    /\ CanonicalFile(1) \in DOMAIN fs0[1]
    /\ fs[CanonicalFile(1)].mode = "0600"

-----------------------------------------------------------------------------
(* Properties of the managed mode *)

\* the project holds a reference under "parts" whose name env lacks
MissingFromEnv ==
    \E n \in 1..Len(ProjectRefs(yaml_data0)) :
       <<"CRAFT_">> \o md5_hexdigest(ProjectRefs(yaml_data0)[n].cmd) \notin DOMAIN env

\* C22 (as claimed): a managed-mode run runs no command and records
\* nothing in its mapping; given a copy of the project of a host-mode run
\* and, as env, the mapping that run returned, it returns with the same
\* substituted project and the same secrets as the host-mode run; given a
\* project with a reference whose CRAFT_<md5(cmd)> name env lacks, it ends
\* with an error.
C22_ManagedEquivalence ==
    is_managed =>
       /\ ran = << >>
       /\ DOMAIN host_vars.mapping = {}
       /\ (host_run.valid /\ subst_pc = "done") =>
             /\ subst_error = None
             /\ yaml_data = host_run.yaml_data
             /\ host_vars.secrets = host_run.secrets
       /\ (subst_pc = "done" /\ MissingFromEnv) => subst_error # None

====
